---------------------------- MODULE Spec2Model ----------------------------
(***************************************************************************)
(* Model of the marketing delivery and engagement pipeline of the EventX   *)
(* backend: the email send route and its detached batch                    *)
(* (routes/marketing.js), the scheduler intervals and the recompute of the *)
(* daily statistics (utils/marketingCron.js, utils/marketingHelpers.js),   *)
(* the tracking endpoints and the router gate (middleware/auth.js).        *)
(* Spec is the whole system; SpecDelivery, SpecStats and SpecTrack are the *)
(* parts of it that the properties at the end are checked on.  SpecManage  *)
(* and SpecJobs are the management routes of campaigns, jobs and posts.    *)
(*                                                                         *)
(* The store is MongoDB behind mongoose: one variable per collection.  A   *)
(* handler is cut at its awaits where another handler can run in between;  *)
(* every persistence call can throw.  Identifiers are ObjectIds, written   *)
(* as their hex string.  Module-level names that the handlers use          *)
(* (mongoose, User, EmailEvent, MarketingCampaign, MarketingStats,         *)
(* Booking) are taken to be bound to the models they name.                 *)
(***************************************************************************)
EXTENDS Integers, Sequences, FiniteSets, TLC

(***************************************************************************)
(* Bounds of the model.                                                    *)
(***************************************************************************)
NumUsers == 12          \* users in the directory
MaxTime == 1            \* the clock runs over 0..MaxTime
DayLen == 1             \* clock units per calendar day
NumTicks == 2           \* scheduler callbacks that can be in flight together
NumSends == 2           \* send requests that can be in flight together
MaxTimers == 1          \* simulated delivery timers followed per job and kind
MaxTrack == 1           \* tracking increments followed per job and counter
MaxPublished == 2       \* postings followed per social post

(***************************************************************************)
(* Program constants.                                                      *)
(***************************************************************************)
BATCH_SIZE == 10        \* routes/marketing.js:594

NoTime == 0 - 1         \* a Date field that is not set
NoAge == 0 - 1          \* minAge / maxAge undefined
Null == "null"

DateOf(t) == t \div DayLen                 \* toISOString().split('T')[0]
DayStart(d) == d * DayLen
Min(a, b) == IF a <= b THEN a ELSE b

RECURSIVE SumOver(_, _)
SumOver(S, f) ==
  IF S = {} THEN 0
  ELSE LET x == CHOOSE y \in S : TRUE IN f[x] + SumOver(S \ {x}, f)

(***************************************************************************)
(* The user directory (User collection).                                   *)
(***************************************************************************)
Users == 1 .. NumUsers
AgeOf(u) == 18 + (u % 35)
InterestsOf(u) == IF u % 3 = 0 THEN {"Tech"} ELSE {"Music"}
LocationOf(u) == IF u % 2 = 0 THEN "Colombo" ELSE "Kandy"

(***************************************************************************)
(* Segments: {status, interests, locations, minAge, maxAge}.               *)
(***************************************************************************)
SegAll == [status |-> "all", interests |-> {}, locations |-> {},
           minAge |-> NoAge, maxAge |-> NoAge]
SegTech == [SegAll EXCEPT !.interests = {"Tech"}]
SegNobody == [SegAll EXCEPT !.locations = {"Galle"}]
SegNotChecked == [SegAll EXCEPT !.status = "not_checked"]
SegChecked == [SegAll EXCEPT !.status = "checked"]
SegCheckedColombo == [SegChecked EXCEPT !.locations = {"Colombo"}]

VARIABLES
  now,        \* the clock
  campaigns,  \* MarketingCampaign collection
  emails,     \* EmailCampaign collection
  posts,      \* SocialPost collection
  bookings,   \* Booking collection
  events,     \* EmailEvent collection, counted per job and kind
  rows,       \* MarketingStats collection
  pending,    \* upserts whose match phase found no row, insert not yet done
  sends,      \* POST /email/:id/send handlers and their detached batches
  ticks,      \* callbacks of the email setInterval
  socialTicks, \* callbacks of the social setInterval
  published,  \* history: per post, how often a callback has posted it
  timers,     \* setTimeout callbacks of MockEmailProvider.sendEmail
  cron,       \* a run of updateMarketingStats
  handed,     \* history: per job, who handed how many recipients to a provider
  last        \* the step just taken, with the response it produced

vars == <<now, campaigns, emails, posts, bookings, events, rows, pending,
          sends, ticks, socialTicks, published, timers, cron, handed, last>>

\* The state of the social interval.
socialVars == <<socialTicks, published>>


(***************************************************************************)
(* Identifiers.                                                            *)
(***************************************************************************)
CampaignIds == {"c1"}
EmailIds == {"e1"}
PostIds == {"p1"}
Owner == "admin1"

EventKinds == {"sent", "delivered", "open", "click", "bounce"}
StatFields == {"sent", "delivered", "opens", "clicks", "bounces"}

ZeroStats == [sent |-> 0, delivered |-> 0, opens |-> 0, clicks |-> 0,
              bounces |-> 0]

(***************************************************************************)
(* Segment Resolver.                                                       *)
(***************************************************************************)
\* resolveSegmentQuery: interests, locations and age only; the age filter is
\* built when minAge or maxAge is truthy, each bound only when truthy.
resolveSegmentQuery(segment) ==
  LET minSet == segment.minAge # NoAge /\ segment.minAge # 0
      maxSet == segment.maxAge # NoAge /\ segment.maxAge # 0
  IN {u \in Users :
        /\ segment.interests # {} => InterestsOf(u) \cap segment.interests # {}
        /\ segment.locations # {} => LocationOf(u) \in segment.locations
        /\ minSet => AgeOf(u) >= segment.minAge
        /\ maxSet => AgeOf(u) <= segment.maxAge}

\* Booking.find(filter).distinct('user'): an array of ObjectId objects, each
\* query building its own objects.  An object is <<query, hex>>.
DistinctUsers(bks, q) == {<<q, b.user>> : b \in bks}

\* Array.prototype.includes compares objects by identity.
Includes(arr, obj) == obj \in arr

\* getSegmentedRecipients: the check-in status predicate, then the filters.
getSegmentedRecipients(segment, bks) ==
  LET checkedInUsers ==
        DistinctUsers({b \in bks : b.status = "checked-in"}, "q1")
      allBookingUsers == DistinctUsers(bks, "q2")
      notCheckedInUsers ==
        {o \in allBookingUsers : ~Includes(checkedInUsers, o)}
      idIn == IF segment.status = "checked"
                THEN {o[2] : o \in checkedInUsers}
              ELSE IF segment.status = "not_checked"
                THEN {o[2] : o \in notCheckedInUsers}
              ELSE Users
  IN {u \in Users :
        /\ u \in idIn
        /\ segment.interests # {} => InterestsOf(u) \cap segment.interests # {}
        /\ segment.locations # {} => LocationOf(u) \in segment.locations
        /\ segment.minAge # NoAge => AgeOf(u) >= segment.minAge
        /\ segment.maxAge # NoAge => AgeOf(u) <= segment.maxAge}

(***************************************************************************)
(* Stats Aggregator: the values each recompute writes.                     *)
(***************************************************************************)
EmailsOf(em, cid) == {e \in DOMAIN em : em[e].campaignId = cid}
PostsOf(ps, cid) == {p \in DOMAIN ps : ps[p].campaignId = cid}

SumStat(em, S, fld) == SumOver(S, [e \in S |-> em[e].stats[fld]])
SumPost(ps, S, fld) == SumOver(S, [p \in S |-> ps[p].stats[fld]])

\* computeEmailStats: every EmailCampaign of the campaign, all five counters.
computeEmailStats(em, cid) ==
  [f \in StatFields |-> SumStat(em, EmailsOf(em, cid), f)]

\* computeSocialStats: the Posted posts only.
computeSocialStats(ps, cid) ==
  LET S == {p \in PostsOf(ps, cid) : ps[p].status = "Posted"}
  IN [impressions |-> SumPost(ps, S, "impressions"),
      clicks |-> SumPost(ps, S, "clicks"),
      engagements |-> SumPost(ps, S, "likes") + SumPost(ps, S, "shares")
                        + SumPost(ps, S, "comments")]

\* updateMarketingStats, the $set of one campaign: bookings of the utm code
\* created at or after today's start.
MarketingStatsValues(em, ps, bks, utmCode, cid, today) ==
  LET emailStats == computeEmailStats(em, cid)
      socialStats == computeSocialStats(ps, cid)
      matched == {b \in bks :
                    /\ b.sourceCampaign = utmCode
                    /\ b.createdAt >= DayStart(today)}
  IN [reach |-> emailStats.delivered + socialStats.impressions,
      conversions |-> Cardinality(matched),
      revenue |-> SumOver(matched, [b \in matched |-> b.pricePaid]),
      email |-> emailStats,
      social |-> socialStats]

\* updateDailyStats, its $set: four email counters, every post whatever its
\* status, bookings whose sourceCampaign is the id string within the day; no
\* revenue.  The sub-documents are cast to their schemas, so the counters
\* left out (bounces, engagements) take the schema default 0.
DailyStatsValues(em, ps, bks, cid, today) ==
  LET E == EmailsOf(em, cid)
      P == PostsOf(ps, cid)
      emailStats == [sent |-> SumStat(em, E, "sent"),
                     delivered |-> SumStat(em, E, "delivered"),
                     opens |-> SumStat(em, E, "opens"),
                     clicks |-> SumStat(em, E, "clicks"),
                     bounces |-> 0]
      socialStats == [impressions |-> SumPost(ps, P, "impressions"),
                      clicks |-> SumPost(ps, P, "clicks"),
                      engagements |-> 0]
      matched == {b \in bks :
                    /\ b.sourceCampaign = cid
                    /\ b.createdAt >= DayStart(today)
                    /\ b.createdAt < DayStart(today) + DayLen}
  IN [reach |-> emailStats.delivered + socialStats.impressions,
      conversions |-> Cardinality(matched),
      email |-> emailStats,
      social |-> socialStats]

(***************************************************************************)
(* MarketingStats collection: rows, the unique index, the upsert.          *)
(***************************************************************************)
RowsAt(rs, cid, d) == {r \in rs : r.campaignId = cid /\ r.date = d}

NextRowId(rs) ==
  IF rs = {} THEN 1
  ELSE 1 + (CHOOSE m \in {r.id : r \in rs} : \A r \in rs : r.id <= m)

\* A row as inserted by an upsert: the filter's fields, the $set, and the
\* schema defaults for what the $set leaves out.
NewRow(rs, cid, d, vals) ==
  [id |-> NextRowId(rs), campaignId |-> cid, date |-> d,
   reach |-> vals.reach, conversions |-> vals.conversions,
   revenue |-> IF "revenue" \in DOMAIN vals THEN vals.revenue ELSE 0,
   email |-> vals.email, social |-> vals.social]

\* $set on a matched row: the fields of vals, the others kept.
SetRow(r, vals) ==
  [r EXCEPT !.reach = vals.reach, !.conversions = vals.conversions,
            !.revenue = IF "revenue" \in DOMAIN vals THEN vals.revenue ELSE @,
            !.email = vals.email, !.social = vals.social]

\* A collection that has no unique index: every insert is accepted.
NoUniqueIndex(rs, cid, d) == TRUE

\* The unique index {campaignId: 1, date: 1}: an insert of a key that is
\* present is refused (E11000).
UniqueIndexAllows(rs, cid, d) == RowsAt(rs, cid, d) = {}

\* The match phase of findOneAndUpdate / updateOne with upsert: one matching
\* row is updated in place.
UpsertMatched(rs, cid, d, vals) ==
  LET r == CHOOSE x \in RowsAt(rs, cid, d) : TRUE
  IN (rs \ {r}) \cup {SetRow(r, vals)}


\* updateOne / findOneAndUpdate with upsert, run with nothing in between its
\* match and its insert.
UpsertSerial(rs, cid, d, vals) ==
  IF RowsAt(rs, cid, d) # {} THEN UpsertMatched(rs, cid, d, vals)
  ELSE rs \cup {NewRow(rs, cid, d, vals)}

(***************************************************************************)
(* The step just taken.                                                    *)
(***************************************************************************)
Step(op, id) ==
  [op |-> op, id |-> id, key |-> <<>>, cred |-> "-", url |-> "-",
   code |-> 0, body |-> "-", location |-> "-"]

\* A step that answers no request and completes no recompute.
Quiet == Step("-", Null)

\* A step that is one whole run of a recompute: its reads and its write.
Recomputed(op, cid, d) == [Step(op, cid) EXCEPT !.key = <<cid, d>>]

Response(op, id, cred, url, code, body, location) ==
  [op |-> op, id |-> id, key |-> <<>>, cred |-> cred, url |-> url,
   code |-> code, body |-> body, location |-> location]

(***************************************************************************)
(* The router gate: router.use(auth, requireRole('admin')).                *)
(***************************************************************************)
Creds == {"none", "attendee", "admin1", "admin2"}
RoleOf(cred) == IF cred \in {"admin1", "admin2"} THEN "admin" ELSE "user"

\* auth: 401 without a token, otherwise req.user is set.
auth(cred) == IF cred = "none" THEN 401 ELSE 0

\* requireRole('admin'): 403 unless the user's role is admin.
requireRole(cred) == IF RoleOf(cred) # "admin" THEN 403 ELSE 0

\* The code the gate answers with, 0 when the request reaches its handler.
RouterGate(cred) == IF auth(cred) # 0 THEN auth(cred) ELSE requireRole(cred)

(***************************************************************************)
(* Initial state: one campaign of the owner with a Draft email job, a      *)
(* Posted social post and three bookings attributed to its utm code.       *)
(***************************************************************************)
InitBookings ==
  {[id |-> 1, user |-> 1, status |-> "checked-in",
    sourceCampaign |-> "cmp-ab12", createdAt |-> 0, pricePaid |-> 2500],
   [id |-> 2, user |-> 2, status |-> "paid",
    sourceCampaign |-> "cmp-ab12", createdAt |-> 0, pricePaid |-> 2500],
   [id |-> 3, user |-> 3, status |-> "paid",
    sourceCampaign |-> "cmp-ab12", createdAt |-> 1, pricePaid |-> 2500]}

\* The handler slot a new request or callback takes: the first idle one.
FirstIdle(f) ==
  IF \E i \in DOMAIN f : f[i].pc = "idle"
    THEN CHOOSE i \in DOMAIN f :
           f[i].pc = "idle" /\ \A j \in DOMAIN f : f[j].pc = "idle" => i <= j
    ELSE 0

IdleSend ==
  [pc |-> "idle", id |-> Null, recipients |-> {}, campaignId |-> Null,
   provider |-> Null]
IdleTick == [pc |-> "idle", queue |-> <<>>]
IdleCron == [pc |-> "idle", queue |-> <<>>, today |-> 0]
NoTimers == [k \in EventKinds \ {"sent"} |-> 0]

\* A Draft job: the paths an EmailCampaign document carries, zero stats.
DraftJob(at, segment, provider) ==
  [campaignId |-> "c1", status |-> "Draft", scheduledAt |-> at,
   subject |-> "Early bird", segment |-> segment, provider |-> provider,
   stats |-> ZeroStats,
   recipients |-> [count |-> 0, processed |-> 0]]

\* Jobs as POST /email creates them: the route sets no scheduledAt.
ApiJobs ==
  {DraftJob(NoTime, SegAll, "mock"), DraftJob(NoTime, SegTech, "mock"),
   DraftJob(NoTime, SegNotChecked, "mock"),
   DraftJob(NoTime, SegNobody, "mock"), DraftJob(NoTime, SegTech, "sendgrid")}

\* Jobs whose document carries scheduledAt, the path the scan of the email
\* interval filters on.  No route writes it; documents written to the store
\* directly, as the seed writes them, carry it.
ScheduledJobs ==
  {DraftJob(1, SegAll, "mock"), DraftJob(1, SegTech, "mock"),
   DraftJob(1, SegNotChecked, "mock")}

InitWith(jobs) ==
  /\ now = 0
  /\ campaigns \in [CampaignIds ->
        [status : {"Active"}, utmCode : {"cmp-ab12"},
         createdBy : {Owner}]]
  /\ emails \in [EmailIds -> jobs]
  /\ posts = [p \in PostIds |->
        [campaignId |-> "c1", status |-> "Posted", scheduledAt |-> 0,
         stats |-> [impressions |-> 800, clicks |-> 60, likes |-> 25,
                    shares |-> 6, comments |-> 3]]]
  /\ bookings = InitBookings
  /\ events = [e \in EmailIds |-> [k \in EventKinds |-> 0]]
  /\ rows = {}
  /\ pending = {}
  /\ sends = [s \in 1 .. NumSends |-> IdleSend]
  /\ ticks = [t \in 1 .. NumTicks |-> IdleTick]
  /\ socialTicks = [t \in 1 .. NumTicks |-> IdleTick]
  /\ published = [p \in PostIds |-> 0]
  /\ timers = [e \in EmailIds |-> NoTimers]
  /\ cron = IdleCron
  /\ handed = [e \in EmailIds |-> <<>>]
  /\ last = Quiet

\* The store holds a campaign with a job created through the API.
Init == InitWith(ApiJobs)

\* Jobs created through the API whose segment carries a status predicate,
\* and the jobs without one to compare with.
SegmentJobs ==
  {DraftJob(NoTime, SegChecked, "mock"),
   DraftJob(NoTime, SegCheckedColombo, "mock"),
   DraftJob(NoTime, SegAll, "mock"), DraftJob(NoTime, SegNobody, "mock")}

InitSegments == InitWith(SegmentJobs)

\* The store holds a campaign with a job that carries scheduledAt.
InitScheduled == InitWith(ScheduledJobs)


(***************************************************************************)
(* recordEmailEvent(emailCampaignId, attendeeId, eventType): create the    *)
(* event, $inc stats.<eventType>s on the job, updateDailyStats with the    *)
(* job's id.  outcome names the call that throws, if any.                  *)
(***************************************************************************)
RecordOutcomes == {"ok", "createFails", "incFails", "statsFails"}

\* `stats.${eventType}s`
CounterOf(kind) ==
  CASE kind = "sent" -> "sents"
    [] kind = "delivered" -> "delivereds"
    [] kind = "open" -> "opens"
    [] kind = "click" -> "clicks"
    [] kind = "bounce" -> "bounces"

\* $inc of a path: paths that are not in statsSchema are dropped by the
\* schema's strict mode.
IncStat(em, e, path) ==
  IF e \in DOMAIN em /\ path \in StatFields
    THEN [em EXCEPT ![e].stats[path] = @ + 1]
    ELSE em

EventsAfterRecord(ev, e, kind, outcome) ==
  IF outcome = "createFails" THEN ev ELSE [ev EXCEPT ![e][kind] = @ + 1]

EmailsAfterRecord(em, e, kind, outcome) ==
  IF outcome \in {"ok", "statsFails"} THEN IncStat(em, e, CounterOf(kind))
  ELSE em

\* updateDailyStats(emailCampaignId): the row is keyed by the job's id.
RowsAfterRecord(rs, em, ps, bks, e, t, outcome) ==
  IF outcome = "ok"
    THEN UpsertSerial(rs, e, DateOf(t),
                      DailyStatsValues(em, ps, bks, e, DateOf(t)))
    ELSE rs


(***************************************************************************)
(* POST /email/:id/send and its detached batch.                            *)
(***************************************************************************)
\* recipients.slice(0, n)
Slice(R, n) == {u \in R : Cardinality({v \in R : v < u}) < n}

SetStatus(em, e, st) ==
  IF e \in DOMAIN em THEN [em EXCEPT ![e].status = st] ELSE em

\* The answer of the send route up to its status check and its resolve of
\* the recipients; 0 when the job goes on to be queued.
SendRejects(e, cred) ==
  IF RouterGate(cred) # 0 THEN RouterGate(cred)
  ELSE IF e \notin DOMAIN emails THEN 404
  ELSE IF campaigns[emails[e].campaignId].createdBy # cred THEN 403
  ELSE IF emails[e].status # "Draft" THEN 400
  ELSE IF resolveSegmentQuery(emails[e].segment) = {} THEN 400
  ELSE 0

\* findById, the owner and Draft checks, resolveSegmentQuery.  The handler
\* keeps the loaded document: its campaign and its provider.
SendLoad(s, e, cred) ==
  /\ s = FirstIdle(sends)
  /\ IF SendRejects(e, cred) # 0
       THEN /\ last' = Response("send", e, cred, "-", SendRejects(e, cred),
                                "json", "-")
            /\ UNCHANGED sends
       ELSE /\ sends' = [sends EXCEPT ![s] =
                 [pc |-> "loaded", id |-> e,
                  recipients |-> resolveSegmentQuery(emails[e].segment),
                  campaignId |-> emails[e].campaignId,
                  provider |-> emails[e].provider]]
            /\ last' = Quiet
  /\ UNCHANGED <<now, campaigns, emails, posts, bookings, events, rows,
                 pending, timers, ticks, socialVars, cron, handed>>

\* email.status = 'Queued'; email.nextBatchAt = new Date(); save; setTimeout;
\* the response.  nextBatchAt is no path of emailCampaignSchema: not stored.
\* The save of a document that is no longer in the store throws.
SendQueue(s) ==
  /\ sends[s].pc = "loaded"
  /\ \E ok \in BOOLEAN :
       IF ok /\ sends[s].id \in DOMAIN emails
         THEN /\ emails' = SetStatus(emails, sends[s].id, "Queued")
              /\ sends' = [sends EXCEPT ![s].pc = "detached"]
              /\ last' = Response("send", sends[s].id, Owner, "-", 200,
                                  "json", "-")
         ELSE /\ sends' = [sends EXCEPT ![s] = IdleSend]
              /\ last' = Response("send", sends[s].id, Owner, "-", 500,
                                  "json", "-")
              /\ UNCHANGED emails
  /\ UNCHANGED <<now, campaigns, posts, bookings, events, rows, pending,
                 timers, ticks, socialVars, cron, handed>>

\* The catch of the detached batch: findByIdAndUpdate(id, {status: 'Failed'}),
\* which can itself throw.
BatchCatch(s, em) ==
  /\ \E caught \in BOOLEAN :
       emails' = IF caught THEN SetStatus(em, sends[s].id, "Failed") ELSE em
  /\ sends' = [sends EXCEPT ![s] = IdleSend]
  /\ pending' = {p \in pending : p.by # <<"send", s>>}
  /\ last' = Quiet

\* findByIdAndUpdate(id, {status: 'Sending'})
BatchStart(s) ==
  /\ sends[s].pc = "detached"
  /\ \E ok \in BOOLEAN :
       IF ok
         THEN /\ emails' = SetStatus(emails, sends[s].id, "Sending")
              /\ sends' = [sends EXCEPT ![s].pc = "batch"]
              /\ last' = Quiet
              /\ UNCHANGED pending
         ELSE BatchCatch(s, emails)
  /\ UNCHANGED <<now, campaigns, posts, bookings, events, rows, timers,
                 ticks, socialVars, cron, handed>>

\* MockEmailProvider.sendEmail arms one timer per recipient: delivered
\* (Math.random() < 0.9) or bounce.
ArmTimers(tm, e, d, b) ==
  [tm EXCEPT ![e]["delivered"] = Min(MaxTimers, @ + d),
             ![e]["bounce"] = Min(MaxTimers, @ + b)]

\* for (const recipient of batch) await provider.sendEmail(email, recipient):
\* n recipients are handled, then the loop ends or the next call throws.
\* sendgrid and mailgun throw on the first call.
BatchSend(s) ==
  /\ sends[s].pc = "batch"
  /\ LET e == sends[s].id
         batch == Slice(sends[s].recipients, BATCH_SIZE)
         size == Cardinality(batch)
         mock == sends[s].provider = "mock"
     IN \E n \in (IF mock THEN {0, size} ELSE {0}) :
        \E d \in {0, n} :
        \E outcome \in RecordOutcomes :
          /\ n = size <=> outcome = "ok"
          /\ mock \/ outcome = "createFails"
          /\ LET ev1 == [events EXCEPT ![e]["sent"] = @ + n]
                 rs1 == IF n > 0
                          THEN RowsAfterRecord(rows, emails, posts, bookings,
                                               e, now, "ok")
                          ELSE rows
                 ev2 == IF outcome = "ok" \/ ~mock THEN ev1
                        ELSE EventsAfterRecord(ev1, e, "sent", outcome)
             IN /\ events' = ev2
                /\ rows' = rs1
                /\ timers' = ArmTimers(timers, e, d, n - d)
                /\ handed' = [handed EXCEPT ![e] =
                       Append(@, [by |-> "batch",
                                  n |-> IF outcome = "ok" THEN n ELSE n + 1])]
                /\ IF outcome = "ok"
                     THEN /\ sends' = [sends EXCEPT ![s].pc = "mark"]
                          /\ last' = Quiet
                          /\ UNCHANGED <<emails, pending>>
                     ELSE BatchCatch(s, emails)
  /\ UNCHANGED <<now, campaigns, posts, bookings, ticks, socialVars, cron>>

\* recipients.length > BATCH_SIZE: {nextBatchAt} (no schema path, nothing is
\* stored); otherwise {status: 'Sent', nextBatchAt: null}.
BatchMark(s) ==
  /\ sends[s].pc = "mark"
  /\ \E ok \in BOOLEAN :
       IF ok
         THEN /\ emails' =
                   IF Cardinality(sends[s].recipients) > BATCH_SIZE
                     THEN emails
                     ELSE SetStatus(emails, sends[s].id, "Sent")
              /\ sends' = [sends EXCEPT ![s].pc = "stats"]
              /\ last' = Quiet
              /\ UNCHANGED pending
         ELSE BatchCatch(s, emails)
  /\ UNCHANGED <<now, campaigns, posts, bookings, events, rows, timers,
                 ticks, socialVars, cron, handed>>

\* updateDailyStats(email.campaignId._id): the reads and the match phase of
\* the upsert.  A matched row is updated; otherwise the insert is pending.
BatchStats(s) ==
  /\ sends[s].pc = "stats"
  /\ LET e == sends[s].id
         cid == sends[s].campaignId
         today == DateOf(now)
         vals == DailyStatsValues(emails, posts, bookings, cid, today)
     IN \E ok \in BOOLEAN :
          IF ~ok THEN BatchCatch(s, emails) /\ UNCHANGED rows
          ELSE IF RowsAt(rows, cid, today) # {}
            THEN /\ rows' = UpsertMatched(rows, cid, today, vals)
                 /\ sends' = [sends EXCEPT ![s] = IdleSend]
                 /\ last' = Recomputed("updateDailyStats", cid, today)
                 /\ UNCHANGED <<emails, pending>>
            ELSE /\ pending' = pending \cup
                       {[by |-> <<"send", s>>, campaignId |-> cid, date |-> today,
                         vals |-> vals]}
                 /\ sends' = [sends EXCEPT ![s].pc = "insert"]
                 /\ last' = Quiet
                 /\ UNCHANGED <<emails, rows>>
  /\ UNCHANGED <<now, campaigns, posts, bookings, events, timers, ticks,
                 socialVars,
                 cron, handed>>

\* The insert phase of the upsert.  The unique index refuses a key that was
\* inserted meanwhile; the server then retries the upsert as an update, or the
\* duplicate-key error is thrown.
BatchInsert(s) ==
  /\ sends[s].pc = "insert"
  /\ \E p \in {q \in pending : q.by = <<"send", s>>} :
       IF UniqueIndexAllows(rows, p.campaignId, p.date)
         THEN /\ rows' = rows \cup {NewRow(rows, p.campaignId, p.date, p.vals)}
              /\ sends' = [sends EXCEPT ![s] = IdleSend]
              /\ pending' = pending \ {p}
              /\ last' = Quiet
              /\ UNCHANGED emails
         ELSE \E retried \in BOOLEAN :
                IF retried
                  THEN /\ rows' = UpsertMatched(rows, p.campaignId, p.date,
                                                p.vals)
                       /\ sends' = [sends EXCEPT ![s] = IdleSend]
                       /\ pending' = pending \ {p}
                       /\ last' = Quiet
                       /\ UNCHANGED emails
                  ELSE BatchCatch(s, emails) /\ UNCHANGED rows
  /\ UNCHANGED <<now, campaigns, posts, bookings, events, timers, ticks,
                 socialVars,
                 cron, handed>>


(***************************************************************************)
(* initMarketingCron: the email setInterval callback.                      *)
(***************************************************************************)
RECURSIVE SeqOf(_)
SeqOf(S) ==
  IF S = {} THEN <<>>
  ELSE LET x == CHOOSE y \in S : TRUE IN <<x>> \o SeqOf(S \ {x})

\* EmailCampaign.find({status: 'Queued', scheduledAt: {$lte: now}}): a job
\* whose scheduledAt is not set does not match.
DueEmails(em, t) ==
  {e \in DOMAIN em : /\ em[e].status = "Queued"
                     /\ em[e].scheduledAt # NoTime
                     /\ em[e].scheduledAt <= t}

TickScan(t) ==
  /\ t = FirstIdle(ticks)
  /\ \E ok \in BOOLEAN :
       IF ok /\ DueEmails(emails, now) # {}
         THEN /\ ticks' = [ticks EXCEPT ![t] =
                   [pc |-> "mark", queue |-> SeqOf(DueEmails(emails, now))]]
              /\ last' = Quiet
         ELSE /\ last' = Quiet
              /\ UNCHANGED ticks
  /\ UNCHANGED <<now, campaigns, emails, posts, bookings, events, rows,
                 pending, sends, timers, cron, handed, socialVars>>

\* The next item of the for loop, or the end of the callback.
TickNext(tk) ==
  IF Len(tk.queue) > 1 THEN [pc |-> "mark", queue |-> Tail(tk.queue)]
  ELSE IdleTick

\* catch (err) { campaign.status = 'Failed'; await campaign.save(); }: the
\* save writes every path the document has modified (doc); when it throws
\* too, the outer catch ends the callback.
TickCatch(t, e, doc) ==
  \E caught \in BOOLEAN :
    /\ emails' = IF caught
                   THEN [emails EXCEPT ![e] = [doc EXCEPT !.status = "Failed"]]
                   ELSE emails
    /\ ticks' = [ticks EXCEPT ![t] = IF caught THEN TickNext(@) ELSE IdleTick]
    /\ last' = Quiet

\* campaign.status = 'Sending'; await campaign.save();
TickMark(t) ==
  /\ ticks[t].pc = "mark"
  /\ LET e == Head(ticks[t].queue) IN
     \E ok \in BOOLEAN :
       IF ok
         THEN /\ emails' = SetStatus(emails, e, "Sending")
              /\ ticks' = [ticks EXCEPT ![t].pc = "send"]
              /\ last' = Quiet
         ELSE TickCatch(t, e, emails[e])
  /\ UNCHANGED <<now, campaigns, posts, bookings, events, rows, pending,
                 sends, timers, cron, handed, socialVars>>

\* Math.floor(recipients.length * 0.95)
Delivered95(n) == (n * 95) \div 100

\* A save that writes the whole stats object of the document the callback
\* has loaded, where no tracking increment was counted yet.
TickSentWholeStats(doc, n) ==
  [doc EXCEPT !.status = "Sent",
              !.stats = [ZeroStats EXCEPT !.sent = n,
                                          !.delivered = (n * 95) \div 100],
              !.recipients = [count |-> n, processed |-> n]]

\* The fields the callback sets before its second save: the save writes the
\* paths that were modified, stats.sent and stats.delivered among them, and
\* no other path of stats.
TickSentDoc(doc, n) ==
  [doc EXCEPT !.status = "Sent",
              !.stats.sent = n,
              !.stats.delivered = Delivered95(n),
              !.recipients = [count |-> n, processed |-> n]]

\* getSegmentedRecipients(campaign.segment), the simulated send to all of
\* them, the stats and status 'Sent', save.
TickSend(t) ==
  /\ ticks[t].pc = "send"
  /\ LET e == Head(ticks[t].queue)
         n == Cardinality(getSegmentedRecipients(emails[e].segment, bookings))
     IN \E resolved \in BOOLEAN : \E saved \in BOOLEAN :
          IF ~resolved
            THEN TickCatch(t, e, emails[e]) /\ UNCHANGED handed
            ELSE /\ handed' = [handed EXCEPT ![e] =
                                  Append(@, [by |-> "tick", n |-> n])]
                 /\ IF saved
                      THEN /\ emails' = [emails EXCEPT ![e] = TickSentDoc(@, n)]
                           /\ ticks' = [ticks EXCEPT ![t] = TickNext(@)]
                           /\ last' = Quiet
                      ELSE TickCatch(t, e, TickSentDoc(emails[e], n))
  /\ UNCHANGED <<now, campaigns, posts, bookings, events, rows, pending,
                 sends, timers, cron, socialVars>>


(***************************************************************************)
(* The setTimeout callbacks of MockEmailProvider.sendEmail.                *)
(***************************************************************************)
\* The timer a callback arms after its recordEmailEvent returned: delivered
\* arms open (Math.random() < 0.6), open arms click (Math.random() < 0.3).
ChainOf(kind) ==
  CASE kind = "delivered" -> "open"
    [] kind = "open" -> "click"
    [] OTHER -> Null

TimerFire(e, kind) ==
  /\ timers[e][kind] > 0
  /\ \E outcome \in RecordOutcomes : \E chained \in BOOLEAN :
       LET em1 == EmailsAfterRecord(emails, e, kind, outcome) IN
       /\ events' = EventsAfterRecord(events, e, kind, outcome)
       /\ emails' = em1
       /\ rows' = RowsAfterRecord(rows, em1, posts, bookings, e, now, outcome)
       /\ timers' =
            IF outcome = "ok" /\ chained /\ ChainOf(kind) # Null
              THEN [timers EXCEPT ![e][kind] = @ - 1,
                                  ![e][ChainOf(kind)] = Min(MaxTimers, @ + 1)]
              ELSE [timers EXCEPT ![e][kind] = @ - 1]
       /\ last' = Quiet
  /\ UNCHANGED <<now, campaigns, posts, bookings, pending, sends, ticks,
                 socialVars,
                 cron, handed>>

(***************************************************************************)
(* The tracking endpoints, behind the router gate.                         *)
(***************************************************************************)
Pixel == "R0lGODlhAQABAIAAAAAAAP///yH5BAEAAAAALAAAAAABAAEAAAIBRAA7"
Urls == {"", "https://ex.org/a", "not a url"}

\* q('url').isURL()
isURL(url) == url = "https://ex.org/a"

TrackCap == MaxTrack

\* GET /email/:id/track/open?recipient=: with a recipient, recordEmailEvent
\* inside its own try/catch; then the pixel.
TrackOpen(e, cred, recipient) ==
  /\ events[e]["open"] < TrackCap
  /\ IF RouterGate(cred) # 0
       THEN /\ last' = Response("open", e, cred, "-", RouterGate(cred),
                                "json", "-")
            /\ UNCHANGED <<events, emails, rows>>
       ELSE /\ \E outcome \in RecordOutcomes :
                 IF recipient # Null
                   THEN LET em1 == EmailsAfterRecord(emails, e, "open", outcome)
                        IN /\ events' = EventsAfterRecord(events, e, "open",
                                                          outcome)
                           /\ emails' = em1
                           /\ rows' = RowsAfterRecord(rows, em1, posts,
                                                      bookings, e, now, outcome)
                   ELSE UNCHANGED <<events, emails, rows>>
            /\ last' = Response("open", e, cred, "-", 200, Pixel, "-")
  /\ UNCHANGED <<now, campaigns, posts, bookings, pending, sends, ticks,
                 socialVars,
                 timers, cron, handed>>

\* GET /email/tracking/:id/click?url=: on a validation error the fallback
\* redirect; otherwise $inc stats.clicks and the redirect, also from the catch.
TrackClick(id, cred, url) ==
  /\ id \in DOMAIN emails => emails[id].stats.clicks < TrackCap
  /\ IF RouterGate(cred) # 0
       THEN /\ last' = Response("click", id, cred, url, RouterGate(cred),
                                "json", "-")
            /\ UNCHANGED emails
       ELSE IF ~isURL(url)
         THEN /\ last' = IF url # ""
                           THEN Response("click", id, cred, url, 302,
                                         "redirect", url)
                           ELSE Response("click", id, cred, url, 400,
                                         "json", "-")
              /\ UNCHANGED emails
         ELSE \E ok \in BOOLEAN :
                /\ emails' = IF ok THEN IncStat(emails, id, "clicks")
                             ELSE emails
                /\ last' = Response("click", id, cred, url, 302,
                                    "redirect", url)
  /\ UNCHANGED <<now, campaigns, posts, bookings, events, rows, pending,
                 sends, ticks, socialVars, timers, cron, handed>>

(***************************************************************************)
(* updateMarketingStats: every Active or Completed campaign, today's row.  *)
(***************************************************************************)
CronScan ==
  /\ cron.pc = "idle"
  /\ LET found == {c \in DOMAIN campaigns :
                     campaigns[c].status \in {"Active", "Completed"}}
     IN \E ok \in BOOLEAN :
          IF ok /\ found # {}
            THEN /\ cron' = [pc |-> "stats", queue |-> SeqOf(found),
                             today |-> DateOf(now)]
                 /\ last' = Quiet
            ELSE /\ last' = Quiet
                 /\ UNCHANGED cron
  /\ UNCHANGED <<now, campaigns, emails, posts, bookings, events, rows,
                 pending, sends, ticks, socialVars, timers, handed>>

CronNext(c) ==
  IF Len(c.queue) > 1 THEN [c EXCEPT !.pc = "stats", !.queue = Tail(@)]
  ELSE IdleCron

\* The catch of updateMarketingStats ends the loop.
CronCatch ==
  /\ cron' = IdleCron
  /\ pending' = {p \in pending : p.by # <<"cron", 0>>}
  /\ last' = Quiet

\* One campaign of the loop: the reads, and the match phase of the upsert.
CronStats ==
  /\ cron.pc = "stats"
  /\ LET cid == Head(cron.queue)
         utm == IF cid \in DOMAIN campaigns THEN campaigns[cid].utmCode
                ELSE Null
         vals == MarketingStatsValues(emails, posts, bookings, utm, cid,
                                      cron.today)
     IN \E ok \in BOOLEAN :
          IF ~ok THEN CronCatch /\ UNCHANGED rows
          ELSE IF RowsAt(rows, cid, cron.today) # {}
            THEN /\ rows' = UpsertMatched(rows, cid, cron.today, vals)
                 /\ cron' = CronNext(cron)
                 /\ last' = Recomputed("updateMarketingStats", cid, cron.today)
                 /\ UNCHANGED pending
            ELSE /\ pending' = pending \cup
                       {[by |-> <<"cron", 0>>, campaignId |-> cid,
                         date |-> cron.today, vals |-> vals]}
                 /\ cron' = [cron EXCEPT !.pc = "insert"]
                 /\ last' = Quiet
                 /\ UNCHANGED rows
  /\ UNCHANGED <<now, campaigns, emails, posts, bookings, events, sends,
                 ticks, socialVars, timers, handed>>

\* The insert phase of the upsert of updateMarketingStats.
CronInsert ==
  /\ cron.pc = "insert"
  /\ \E p \in {q \in pending : q.by = <<"cron", 0>>} :
       IF UniqueIndexAllows(rows, p.campaignId, p.date)
         THEN /\ rows' = rows \cup {NewRow(rows, p.campaignId, p.date, p.vals)}
              /\ cron' = CronNext(cron)
              /\ pending' = pending \ {p}
              /\ last' = Quiet
         ELSE \E retried \in BOOLEAN :
                IF retried
                  THEN /\ rows' = UpsertMatched(rows, p.campaignId, p.date,
                                                p.vals)
                       /\ cron' = CronNext(cron)
                       /\ pending' = pending \ {p}
                       /\ last' = Quiet
                  ELSE CronCatch /\ UNCHANGED rows
  /\ UNCHANGED <<now, campaigns, emails, posts, bookings, events, sends,
                 ticks, socialVars, timers, handed>>

(***************************************************************************)
(* The clock.                                                              *)
(***************************************************************************)
Advance ==
  /\ now < MaxTime
  /\ now' = now + 1
  /\ last' = Quiet
  /\ UNCHANGED <<campaigns, emails, posts, bookings, events, rows, pending,
                 sends, ticks, socialVars, timers, cron, handed>>

(***************************************************************************)
(* The management routes of campaigns, email jobs and social posts.  The   *)
(* requests on one document come from its owner one at a time: a handler   *)
(* is one step, from its findById to its response.                         *)
(***************************************************************************)
Minute == 1             \* 60_000 ms in clock units

\* Dates a request can carry.
Dates == 0 .. MaxTime + 1

\* The campaign, the job and the post the management part follows.
TheCampaign == "c1"
TheEmail == "e1"
ThePost == "p1"

\* Campaign routes that do not compare createdBy with the requester.
CampaignRejectsAnyAdmin(c, cred) ==
  IF RouterGate(cred) # 0 THEN RouterGate(cred)
  ELSE IF c \notin DOMAIN campaigns THEN 404
  ELSE 0

\* findById and the owner check of the campaign routes.
CampaignRejects(c, cred) ==
  IF RouterGate(cred) # 0 THEN RouterGate(cred)
  ELSE IF c \notin DOMAIN campaigns THEN 404
  ELSE IF campaigns[c].createdBy # cred THEN 403
  ELSE 0

\* A schema whose endAt has no validator.
NoDateValidator(doc) == TRUE

\* A creation that leaves the status to the schema default.
SchemaDefaultStatus(t, start) == "Scheduled"

\* status: start <= new Date() ? 'Active' : 'Scheduled'
StatusOnCreate(t, start) == IF start <= t THEN "Active" ELSE "Scheduled"

\* A recomputation that does not look at the end date.
StatusByStart(t, start, end) == IF t >= start THEN "Active" ELSE "Scheduled"

\* if (now > end) 'Completed' else if (now >= start) 'Active' else
\* 'Scheduled': the update route and the activate route.
StatusByDates(t, start, end) ==
  IF t > end THEN "Completed"
  ELSE IF t >= start THEN "Active"
  ELSE "Scheduled"

\* An update that recomputes the status whatever it is.
NeverPaused(st) == FALSE

\* campaign.status !== 'Paused' guards the recomputation of the update route.
IsPaused(st) == st = "Paused"

\* The validator of endAt, run by every save of a campaign document.
EndAfterStart(doc) == doc.startAt < doc.endAt

EndNotAfterStart == "End date must be after start date"

\* POST /campaigns.  startAt, endAt: a date, or NoTime when the field is
\* missing or no ISO 8601 date.
CreateCampaign(cred, startAt, endAt) ==
  /\ TheCampaign \notin DOMAIN campaigns
  /\ LET code == IF RouterGate(cred) # 0 THEN RouterGate(cred)
                 ELSE IF startAt = NoTime \/ endAt = NoTime THEN 400
                 ELSE IF endAt <= startAt THEN 400
                 ELSE 0
         doc == [status |-> StatusOnCreate(now, startAt),
                 utmCode |-> "cmp-ab12", createdBy |-> cred,
                 startAt |-> startAt, endAt |-> endAt]
         msg == IF RouterGate(cred) = 0 /\ startAt # NoTime /\ endAt # NoTime
                     /\ endAt <= startAt
                  THEN EndNotAfterStart ELSE "json"
     IN IF code # 0
          THEN /\ last' = Response("createCampaign", TheCampaign, cred, "-",
                                   code, msg, "-")
               /\ UNCHANGED campaigns
          ELSE \E ok \in BOOLEAN :
                 IF ok
                   THEN /\ campaigns' = campaigns @@ (TheCampaign :> doc)
                        /\ last' = Response("createCampaign", TheCampaign,
                                            cred, "-", 201, "json", "-")
                   ELSE /\ last' = Response("createCampaign", TheCampaign,
                                            cred, "-", 500, "json", "-")
                        /\ UNCHANGED campaigns
  /\ UNCHANGED <<now, emails, posts, bookings, events, rows, pending, sends,
                 ticks, socialVars, timers, cron, handed>>

\* PUT /campaigns/:id.  startAt, endAt: a date, or NoTime when the body does
\* not carry the field.
UpdateCampaign(c, cred, startAt, endAt) ==
  /\ LET code == CampaignRejects(c, cred) IN
     IF code # 0
       THEN /\ last' = Response("updateCampaign", c, cred, "-", code, "json",
                                "-")
            /\ UNCHANGED campaigns
       ELSE LET set == [campaigns[c] EXCEPT
                          !.startAt = IF startAt # NoTime THEN startAt ELSE @,
                          !.endAt = IF endAt # NoTime THEN endAt ELSE @]
                doc == IF IsPaused(set.status) THEN set
                       ELSE [set EXCEPT !.status =
                               StatusByDates(now, set.startAt, set.endAt)]
            IN \E ok \in BOOLEAN :
                 IF ok /\ EndAfterStart(doc)
                   THEN /\ campaigns' = [campaigns EXCEPT ![c] = doc]
                        /\ last' = Response("updateCampaign", c, cred, "-",
                                            200, "json", "-")
                   ELSE /\ last' = Response("updateCampaign", c, cred, "-",
                                            500, "json", "-")
                        /\ UNCHANGED campaigns
  /\ UNCHANGED <<now, emails, posts, bookings, events, rows, pending, sends,
                 ticks, socialVars, timers, cron, handed>>

\* A pause route that only refuses a campaign that is paused already.
PausableUnlessPaused(st) == st # "Paused"

\* campaign.status !== 'Active' && campaign.status !== 'Scheduled' -> 400
Pausable(st) == st \in {"Active", "Scheduled"}

\* An activate route that takes a campaign of any status.
ActivatableAlways(st) == TRUE

\* campaign.status !== 'Paused' -> 400
Activatable(st) == st = "Paused"

\* POST /campaigns/:id/pause: an Active or Scheduled campaign becomes Paused.
PauseCampaign(c, cred) ==
  /\ LET code == IF CampaignRejects(c, cred) # 0 THEN CampaignRejects(c, cred)
                 ELSE IF ~Pausable(campaigns[c].status)
                   THEN 400
                 ELSE 0
     IN IF code # 0
          THEN /\ last' = Response("pauseCampaign", c, cred, "-", code,
                                   "json", "-")
               /\ UNCHANGED campaigns
          ELSE \E ok \in BOOLEAN :
                 IF ok
                   THEN /\ campaigns' = [campaigns EXCEPT
                                           ![c].status = "Paused"]
                        /\ last' = Response("pauseCampaign", c, cred, "-",
                                            200, "json", "-")
                   ELSE /\ last' = Response("pauseCampaign", c, cred, "-",
                                            500, "json", "-")
                        /\ UNCHANGED campaigns
  /\ UNCHANGED <<now, emails, posts, bookings, events, rows, pending, sends,
                 ticks, socialVars, timers, cron, handed>>

\* POST /campaigns/:id/activate: a Paused campaign takes the status of its
\* dates.
ActivateCampaign(c, cred) ==
  /\ LET code == IF CampaignRejects(c, cred) # 0 THEN CampaignRejects(c, cred)
                 ELSE IF ~Activatable(campaigns[c].status) THEN 400
                 ELSE 0
     IN IF code # 0
          THEN /\ last' = Response("activateCampaign", c, cred, "-", code,
                                   "json", "-")
               /\ UNCHANGED campaigns
          ELSE \E ok \in BOOLEAN :
                 IF ok
                   THEN /\ campaigns' = [campaigns EXCEPT ![c].status =
                             StatusByDates(now, campaigns[c].startAt,
                                           campaigns[c].endAt)]
                        /\ last' = Response("activateCampaign", c, cred, "-",
                                            200, "json", "-")
                   ELSE /\ last' = Response("activateCampaign", c, cred, "-",
                                            500, "json", "-")
                        /\ UNCHANGED campaigns
  /\ UNCHANGED <<now, emails, posts, bookings, events, rows, pending, sends,
                 ticks, socialVars, timers, cron, handed>>

\* deleteMany({campaignId: id}) on a collection of documents.
WithoutCampaign(docs, c) ==
  [d \in {x \in DOMAIN docs : docs[x].campaignId # c} |-> docs[d]]

\* DELETE /campaigns/:id: deleteMany of the jobs, of the posts and of the
\* rows of the campaign, then deleteOne of the campaign; done counts the
\* deletes that returned before one threw.
DeleteCampaign(c, cred) ==
  /\ LET code == CampaignRejects(c, cred) IN
     IF code # 0
       THEN /\ last' = Response("deleteCampaign", c, cred, "-", code, "json",
                                "-")
            /\ UNCHANGED <<campaigns, emails, posts, rows>>
       ELSE \E done \in 0 .. 4 :
              /\ emails' = IF done >= 1 THEN WithoutCampaign(emails, c)
                            ELSE emails
              /\ posts' = IF done >= 2 THEN WithoutCampaign(posts, c)
                           ELSE posts
              /\ rows' = IF done >= 3 THEN {r \in rows : r.campaignId # c}
                          ELSE rows
              /\ campaigns' = IF done = 4
                                THEN [d \in DOMAIN campaigns \ {c} |->
                                        campaigns[d]]
                                ELSE campaigns
              /\ last' = Response("deleteCampaign", c, cred, "-",
                                  IF done = 4 THEN 200 ELSE 500, "json", "-")
  /\ UNCHANGED <<now, bookings, events, pending, sends, ticks, socialVars,
                 timers, cron,
                 handed>>

(***************************************************************************)
(* Email jobs: POST /email and PUT /email/:id.                             *)
(***************************************************************************)
\* POST /email: a Draft job in a campaign of the requester.  recipientCount
\* is no path of emailCampaignSchema: not stored.
CreateEmail(cred, c, job) ==
  /\ TheEmail \notin DOMAIN emails
  /\ LET code == CampaignRejects(c, cred) IN
     IF code # 0
       THEN /\ last' = Response("createEmail", TheEmail, cred, "-", code,
                                "json", "-")
            /\ UNCHANGED emails
       ELSE \E ok \in BOOLEAN :
              IF ok
                THEN /\ emails' = emails @@
                          (TheEmail :> [job EXCEPT !.campaignId = c])
                     /\ last' = Response("createEmail", TheEmail, cred, "-",
                                         201, "json", "-")
                ELSE /\ last' = Response("createEmail", TheEmail, cred, "-",
                                         500, "json", "-")
                     /\ UNCHANGED emails
  /\ UNCHANGED <<now, campaigns, posts, bookings, events, rows, pending,
                 sends, ticks, socialVars, timers, cron, handed>>

\* The fields a PUT /email/:id body can carry; templateHtml and fromEmail are
\* assigned by the same statement as subject.
FullEmailBody ==
  [subject |-> "Last call", segment |-> SegTech, provider |-> "sendgrid"]

EmailBodies ==
  {[k \in S |-> FullEmailBody[k]] : S \in SUBSET DOMAIN FullEmailBody}
    \cup {[subject |-> ""]}

\* check('subject').optional().notEmpty()
EmailBodyValid(body) == "subject" \in DOMAIN body => body.subject # ""

\* An update route that does not look at the status of the job.
AnyJobStatus(st) == TRUE

\* email.status !== 'Draft' -> 400 'Only draft emails can be updated'
IsDraft(st) == st = "Draft"

\* if (x !== undefined) email.x = x, for each field of the body.
AssignEmail(doc, body) ==
  [doc EXCEPT
     !.subject = IF "subject" \in DOMAIN body THEN body.subject ELSE @,
     !.segment = IF "segment" \in DOMAIN body THEN body.segment ELSE @,
     !.provider = IF "provider" \in DOMAIN body THEN body.provider ELSE @]

UpdateEmailRejects(e, cred, body) ==
  IF RouterGate(cred) # 0 THEN RouterGate(cred)
  ELSE IF ~EmailBodyValid(body) THEN 400
  ELSE IF e \notin DOMAIN emails THEN 404
  ELSE IF campaigns[emails[e].campaignId].createdBy # cred THEN 403
  ELSE IF ~IsDraft(emails[e].status) THEN 400
  ELSE 0

\* PUT /email/:id
UpdateEmail(e, cred, body) ==
  /\ LET code == UpdateEmailRejects(e, cred, body) IN
     IF code # 0
       THEN /\ last' = Response("updateEmail", e, cred, "-", code, "json",
                                "-")
            /\ UNCHANGED emails
       ELSE \E ok \in BOOLEAN :
              IF ok
                THEN /\ emails' = [emails EXCEPT
                                     ![e] = AssignEmail(@, body)]
                     /\ last' = Response("updateEmail", e, cred, "-", 200,
                                         "json", "-")
                ELSE /\ last' = Response("updateEmail", e, cred, "-", 500,
                                         "json", "-")
                     /\ UNCHANGED emails
  /\ UNCHANGED <<now, campaigns, posts, bookings, events, rows, pending,
                 sends, ticks, socialVars, timers, cron, handed>>

(***************************************************************************)
(* Social posts: POST /social, PUT /social/:id, POST /social/:id/schedule. *)
(***************************************************************************)
ZeroPostStats ==
  [impressions |-> 0, clicks |-> 0, likes |-> 0, shares |-> 0, comments |-> 0]

\* findById(...).populate('campaignId') and the owner check.
PostRejects(p, cred) ==
  IF RouterGate(cred) # 0 THEN RouterGate(cred)
  ELSE IF p \notin DOMAIN posts THEN 404
  ELSE IF campaigns[posts[p].campaignId].createdBy # cred THEN 403
  ELSE 0

\* POST /social: MarketingCampaign.findOne({_id, createdBy}); a Draft post.
\* scheduledAt: a date, or NoTime when it is missing or no ISO 8601 date.
CreatePost(cred, c, scheduledAt) ==
  /\ ThePost \notin DOMAIN posts
  /\ LET code == IF RouterGate(cred) # 0 THEN RouterGate(cred)
                 ELSE IF scheduledAt = NoTime THEN 400
                 ELSE IF c \notin DOMAIN campaigns THEN 404
                 ELSE IF campaigns[c].createdBy # cred THEN 404
                 ELSE 0
     IN IF code # 0
          THEN /\ last' = Response("createPost", ThePost, cred, "-", code,
                                   "json", "-")
               /\ UNCHANGED posts
          ELSE \E ok \in BOOLEAN :
                 IF ok
                   THEN /\ posts' = posts @@
                             (ThePost :> [campaignId |-> c, status |-> "Draft",
                                          scheduledAt |-> scheduledAt,
                                          stats |-> ZeroPostStats])
                        /\ last' = Response("createPost", ThePost, cred, "-",
                                            201, "json", "-")
                   ELSE /\ last' = Response("createPost", ThePost, cred, "-",
                                            500, "json", "-")
                        /\ UNCHANGED posts
  /\ UNCHANGED <<now, campaigns, emails, bookings, events, rows, pending,
                 sends, ticks, socialVars, timers, cron, handed>>

\* PUT /social/:id: a Draft post takes the fields of the body.  scheduledAt:
\* a date, or NoTime when the body does not carry it.
UpdatePost(p, cred, scheduledAt) ==
  /\ LET code == IF PostRejects(p, cred) # 0 THEN PostRejects(p, cred)
                 ELSE IF posts[p].status # "Draft" THEN 400
                 ELSE 0
     IN IF code # 0
          THEN /\ last' = Response("updatePost", p, cred, "-", code, "json",
                                   "-")
               /\ UNCHANGED posts
          ELSE \E ok \in BOOLEAN :
                 IF ok
                   THEN /\ posts' = [posts EXCEPT ![p].scheduledAt =
                             IF scheduledAt # NoTime THEN scheduledAt ELSE @]
                        /\ last' = Response("updatePost", p, cred, "-", 200,
                                            "json", "-")
                   ELSE /\ last' = Response("updatePost", p, cred, "-", 500,
                                            "json", "-")
                        /\ UNCHANGED posts
  /\ UNCHANGED <<now, campaigns, emails, bookings, events, rows, pending,
                 sends, ticks, socialVars, timers, cron, handed>>

\* A schedule route that does not look at the status of the campaign.
AnyCampaignStatus(st) == TRUE

\* socialPost.campaignId.status !== 'Active' -> 400
AllowsSchedule(st) == st = "Active"

\* A schedule route that leaves scheduledAt as it is.
KeptScheduleTime(at, t) == at

\* if (!scheduledAt || new Date(scheduledAt) <= now)
\*   scheduledAt = new Date(now.getTime() + 60_000)
ScheduleTime(at, t) == IF at = NoTime \/ at <= t THEN t + Minute ELSE at

NotDraftPost == "Cannot schedule social post with status"
NotActiveCampaign == "Cannot schedule post for campaign with status"

\* POST /social/:id/schedule.  SocialPublisher has no enqueue, so the
\* handoff after the save is skipped.
SchedulePost(p, cred) ==
  /\ LET code == IF PostRejects(p, cred) # 0 THEN PostRejects(p, cred)
                 ELSE IF posts[p].status # "Draft" THEN 400
                 ELSE IF ~AllowsSchedule(campaigns[posts[p].campaignId].status)
                   THEN 400
                 ELSE 0
         msg == IF PostRejects(p, cred) # 0 THEN "json"
                ELSE IF posts[p].status # "Draft" THEN NotDraftPost
                ELSE NotActiveCampaign
     IN IF code # 0
          THEN /\ last' = Response("schedulePost", p, cred, "-", code, msg,
                                   "-")
               /\ UNCHANGED posts
          ELSE \E ok \in BOOLEAN :
                 IF ok
                   THEN /\ posts' = [posts EXCEPT
                             ![p].scheduledAt = ScheduleTime(@, now),
                             ![p].status = "Queued"]
                        /\ last' = Response("schedulePost", p, cred, "-",
                                            200, "json", "-")
                   ELSE /\ last' = Response("schedulePost", p, cred, "-",
                                            500, "json", "-")
                        /\ UNCHANGED posts
  /\ UNCHANGED <<now, campaigns, emails, bookings, events, rows, pending,
                 sends, ticks, socialVars, timers, cron, handed>>

\* DELETE /social/:id: a Draft post is removed.
DeletePost(p, cred) ==
  /\ LET code == IF PostRejects(p, cred) # 0 THEN PostRejects(p, cred)
                 ELSE IF posts[p].status # "Draft" THEN 400
                 ELSE 0
     IN IF code # 0
          THEN /\ last' = Response("deletePost", p, cred, "-", code, "json",
                                   "-")
               /\ UNCHANGED posts
          ELSE \E ok \in BOOLEAN :
                 IF ok
                   THEN /\ posts' = [d \in DOMAIN posts \ {p} |-> posts[d]]
                        /\ last' = Response("deletePost", p, cred, "-", 200,
                                            "json", "-")
                   ELSE /\ last' = Response("deletePost", p, cred, "-", 500,
                                            "json", "-")
                        /\ UNCHANGED posts
  /\ UNCHANGED <<now, campaigns, emails, bookings, events, rows, pending,
                 sends, ticks, socialVars, timers, cron, handed>>

\* A scan that leaves out the posts of a campaign that is not Active.
DuePostsOfActive(ps, t) ==
  {p \in DOMAIN ps : /\ ps[p].status = "Queued" /\ ps[p].scheduledAt <= t
                     /\ ps[p].campaignId \in DOMAIN campaigns
                     /\ campaigns[ps[p].campaignId].status = "Active"}

\* A scan that takes every Queued post, whatever its scheduledAt.
QueuedPosts(ps, t) == {p \in DOMAIN ps : ps[p].status = "Queued"}

(***************************************************************************)
(* initMarketingCron: the social setInterval callback.  It posts by        *)
(* itself: no publisher is called.  postedAt and error are stored with the *)
(* status and are not followed here.                                       *)
(***************************************************************************)
\* SocialPost.find({status: 'Queued', scheduledAt: {$lte: now}})
DuePosts(ps, t) ==
  {p \in DOMAIN ps : ps[p].status = "Queued" /\ ps[p].scheduledAt <= t}

\* The simulated engagement: the least and the greatest values of
\* Math.floor(Math.random() * range) + base.
SimulatedStats ==
  {[impressions |-> 500, clicks |-> 50, likes |-> 20, shares |-> 5,
    comments |-> 2],
   [impressions |-> 1499, clicks |-> 149, likes |-> 69, shares |-> 24,
    comments |-> 11]}

SocialScan(t) ==
  /\ t = FirstIdle(socialTicks)
  /\ \E ok \in BOOLEAN :
       IF ok /\ DuePosts(posts, now) # {}
         THEN socialTicks' = [socialTicks EXCEPT ![t] =
                [pc |-> "post", queue |-> SeqOf(DuePosts(posts, now))]]
         ELSE UNCHANGED socialTicks
  /\ last' = Quiet
  /\ UNCHANGED <<now, campaigns, emails, posts, bookings, events, rows,
                 pending, sends, ticks, published, timers, cron, handed>>

\* The next item of the for loop, or the end of the callback.
SocialNext(tk) ==
  IF Len(tk.queue) > 1 THEN [pc |-> "post", queue |-> Tail(tk.queue)]
  ELSE IdleTick

\* One item of the loop: the simulated posting, status 'Posted', postedAt,
\* stats, save.  When the save throws, the catch sets 'Failed' and saves the
\* document with the paths it has modified; when that save throws too, the
\* outer catch ends the callback.  The save of a document that is no longer
\* in the store throws.
SocialPost(t) ==
  /\ socialTicks[t].pc = "post"
  /\ LET p == Head(socialTicks[t].queue) IN
     /\ published' = [published EXCEPT ![p] = Min(MaxPublished, @ + 1)]
     /\ \E st \in SimulatedStats : \E saved \in BOOLEAN :
        \E caught \in BOOLEAN :
          IF saved /\ p \in DOMAIN posts
            THEN /\ posts' = [posts EXCEPT ![p].status = "Posted",
                                           ![p].stats = st]
                 /\ socialTicks' = [socialTicks EXCEPT ![t] = SocialNext(@)]
            ELSE IF caught /\ p \in DOMAIN posts
              THEN /\ posts' = [posts EXCEPT ![p].status = "Failed",
                                             ![p].stats = st]
                   /\ socialTicks' = [socialTicks EXCEPT
                                        ![t] = SocialNext(@)]
              ELSE /\ socialTicks' = [socialTicks EXCEPT ![t] = IdleTick]
                   /\ UNCHANGED posts
  /\ last' = Quiet
  /\ UNCHANGED <<now, campaigns, emails, bookings, events, rows, pending,
                 sends, ticks, timers, cron, handed>>

\* The clock of the management part: it runs one unit further than the
\* dates a request can carry begin, so that a campaign created in it can
\* pass its end date.
Elapse ==
  /\ now < MaxTime + 1
  /\ now' = now + 1
  /\ last' = Quiet
  /\ UNCHANGED <<campaigns, emails, posts, bookings, events, rows, pending,
                 sends, ticks, socialVars, timers, cron, handed>>

(***************************************************************************)
(* The parts of the system.                                                *)
(***************************************************************************)
\* The operator's send requests and the detached batches, in the handler
\* slots S.
Sending(S) ==
  \/ \E s \in S : \E e \in DOMAIN emails : SendLoad(s, e, Owner)
  \/ \E s \in S : SendQueue(s)
  \/ \E s \in S : BatchStart(s)
  \/ \E s \in S : BatchSend(s)
  \/ \E s \in S : BatchMark(s)
  \/ \E s \in S : BatchStats(s)
  \/ \E s \in S : BatchInsert(s)

\* The callbacks of the email setInterval; a callback can start while an
\* earlier one is still awaiting.
Scheduler ==
  \/ \E t \in 1 .. NumTicks : TickScan(t)
  \/ \E t \in 1 .. NumTicks : TickMark(t)
  \/ \E t \in 1 .. NumTicks : TickSend(t)

Timers ==
  \E e \in DOMAIN emails : \E k \in EventKinds \ {"sent"} : TimerFire(e, k)

\* Open requests with credentials from C, with and without a recipient.
Opens(C) ==
  \E e \in DOMAIN emails : \E c \in C : \E r \in {Null, "u1"} :
    TrackOpen(e, c, r)

\* Click requests with credentials from C and urls from U, for a job that
\* exists and for one that does not.
Clicks(C, U) ==
  \E id \in DOMAIN emails \cup {"e404"} : \E c \in C : \E u \in U :
    TrackClick(id, c, u)

Recompute ==
  \/ CronScan
  \/ CronStats
  \/ CronInsert

AllSlots == 1 .. NumSends
OneSlot == {1}           \* send requests arrive one at a time

(***************************************************************************)
(* The whole system.                                                       *)
(***************************************************************************)
Next ==
  \/ Sending(AllSlots)
  \/ Scheduler
  \/ Timers
  \/ Opens(Creds)
  \/ Clicks(Creds, Urls)
  \/ Recompute
  \/ Advance

Spec == Init /\ [][Next]_vars

(***************************************************************************)
(* Delivery of jobs created through the API: send requests, which can      *)
(* overlap, their detached batches, and the scan of the email interval.    *)
(***************************************************************************)
Scans == \E t \in 1 .. NumTicks : TickScan(t)

NextDelivery ==
  \/ Sending(AllSlots)
  \/ Scans
  \/ Advance

SpecDelivery == Init /\ [][NextDelivery]_vars

(***************************************************************************)
(* Delivery of jobs that carry scheduledAt: send requests one at a time,   *)
(* their detached batches, and the callbacks of the email interval, which  *)
(* can overlap.                                                            *)
(***************************************************************************)
NextScheduled ==
  \/ Sending(OneSlot)
  \/ Scheduler
  \/ Advance

SpecScheduled == InitScheduled /\ [][NextScheduled]_vars

(***************************************************************************)
(* Counters: the writers of the counters of a job together -- the batch,   *)
(* the callbacks of the email interval, the simulated delivery timers and  *)
(* the owner's tracking requests.                                          *)
(***************************************************************************)
NextCounters ==
  \/ Sending(OneSlot)
  \/ Scheduler
  \/ Timers
  \/ Opens({Owner})
  \/ Clicks({Owner}, {"https://ex.org/a"})
  \/ Advance

\* The store holds one job that carries scheduledAt, with a small segment.
InitCounters == InitWith({DraftJob(1, SegTech, "mock")})

SpecCounters == InitCounters /\ [][NextCounters]_vars

(***************************************************************************)
(* Statistics: every writer of the MarketingStats collection -- the        *)
(* recompute of the scheduler, of the detached batch and of the tracker.   *)
(***************************************************************************)
NextStats ==
  \/ Sending(OneSlot)
  \/ Recompute
  \/ Opens({Owner})
  \/ Advance

SpecStats == Init /\ [][NextStats]_vars

(***************************************************************************)
(* Tracking: the two endpoints under every kind of request.                *)
(***************************************************************************)
NextTrack ==
  \/ Opens(Creds)
  \/ Clicks(Creds, Urls)
  \/ Advance

SpecTrack == Init /\ [][NextTrack]_vars

(***************************************************************************)
(* Management: a campaign created through the API and managed by requests *)
(* of every kind of requester, a job and a post created under it and       *)
(* managed by the owner, the scan of the email interval, and the clock.    *)
(***************************************************************************)
InitManage ==
  /\ now = 0
  /\ campaigns = <<>>
  /\ emails = <<>>
  /\ posts = <<>>
  /\ bookings = InitBookings
  /\ events = [e \in EmailIds |-> [k \in EventKinds |-> 0]]
  /\ rows = {}
  /\ pending = {}
  /\ sends = [s \in 1 .. NumSends |-> IdleSend]
  /\ ticks = [t \in 1 .. NumTicks |-> IdleTick]
  /\ socialTicks = [t \in 1 .. NumTicks |-> IdleTick]
  /\ published = [p \in PostIds |-> 0]
  /\ timers = [e \in EmailIds |-> NoTimers]
  /\ cron = IdleCron
  /\ handed = [e \in EmailIds |-> <<>>]
  /\ last = Quiet

\* Requests on the campaign, with credentials from C.
CampaignRoutes(C) ==
  \/ \E c \in C : \E s \in Dates \cup {NoTime} : \E e \in Dates \cup {NoTime} :
       CreateCampaign(c, s, e)
  \/ \E c \in C : \E s \in Dates \cup {NoTime} : \E e \in Dates \cup {NoTime} :
       UpdateCampaign(TheCampaign, c, s, e)
  \/ \E c \in C : PauseCampaign(TheCampaign, c)
  \/ \E c \in C : ActivateCampaign(TheCampaign, c)

\* Creation of the email job, with credentials from C.
EmailCreates(C) ==
  \E c \in C : \E job \in ApiJobs : CreateEmail(c, TheCampaign, job)

\* Updates of the email job, with credentials from C.
EmailUpdates(C) ==
  \E c \in C : \E body \in EmailBodies : UpdateEmail(TheEmail, c, body)

\* Requests on the social post, with credentials from C.
PostRoutes(C) ==
  \/ \E c \in C : \E at \in Dates \cup {NoTime} :
       CreatePost(c, TheCampaign, at)
  \/ \E c \in C : \E at \in Dates \cup {NoTime} : UpdatePost(ThePost, c, at)
  \/ \E c \in C : SchedulePost(ThePost, c)

NextManage ==
  \/ CampaignRoutes(Creds)
  \/ EmailCreates({Owner})
  \/ PostRoutes({Owner})
  \/ Scans
  \/ Elapse

SpecManage == InitManage /\ [][NextManage]_vars

(***************************************************************************)
(* Ownership: the owner creates the campaign, a job and a post; every      *)
(* route that changes one of them is requested by the owner and by another *)
(* admin, the routes that delete or send by the other admin only.          *)
(***************************************************************************)
Admins == {c \in Creds : RoleOf(c) = "admin"}
Strangers == Admins \ {Owner}

NextOwnership ==
  \/ \E s \in Dates \cup {NoTime} : \E e \in Dates \cup {NoTime} :
       CreateCampaign(Owner, s, e)
  \/ \E c \in Admins : \E s \in Dates \cup {NoTime} :
       \E e \in Dates \cup {NoTime} :
       UpdateCampaign(TheCampaign, c, s, e)
  \/ \E c \in Admins : PauseCampaign(TheCampaign, c)
  \/ \E c \in Admins : ActivateCampaign(TheCampaign, c)
  \/ \E c \in Strangers : DeleteCampaign(TheCampaign, c)
  \/ EmailCreates(Admins)
  \/ EmailUpdates(Admins)
  \/ \E c \in Strangers : SendLoad(1, TheEmail, c)
  \/ PostRoutes(Admins)
  \/ \E c \in Strangers : DeletePost(ThePost, c)
  \/ Elapse

SpecOwnership == InitManage /\ [][NextOwnership]_vars

(***************************************************************************)
(* Job editing: update requests of every kind of requester on a job        *)
(* created through the API, send requests one at a time with their         *)
(* detached batches, and the clock.                                        *)
(***************************************************************************)
NextJobs ==
  \/ EmailUpdates(Creds)
  \/ Sending(OneSlot)
  \/ Advance

SpecJobs == Init /\ [][NextJobs]_vars

(***************************************************************************)
(* Sending to segments with a status predicate: send requests one at a     *)
(* time with their detached batches, and the clock.                        *)
(***************************************************************************)
NextSegments ==
  \/ Sending(OneSlot)
  \/ Advance

SpecSegments == InitSegments /\ [][NextSegments]_vars

(***************************************************************************)
(* Campaign deletion: delete requests of every kind of requester, send     *)
(* requests one at a time with their detached batches, and the clock.      *)
(***************************************************************************)
CampaignDeletes(C) ==
  \E c \in CampaignIds : \E cred \in C : DeleteCampaign(c, cred)

NextDelete ==
  \/ CampaignDeletes(Creds)
  \/ Sending(OneSlot)
  \/ Advance

SpecDelete == Init /\ [][NextDelete]_vars

(***************************************************************************)
(* Social posts: two Draft posts under an Active campaign of the owner,    *)
(* the update, delete and schedule requests of every kind of requester,    *)
(* the callbacks of the social interval, and the clock.                    *)
(***************************************************************************)
SocialIds == {"p1", "p2"}

InitSocial ==
  /\ now = 0
  /\ campaigns = [c \in CampaignIds |->
        [status |-> "Active", utmCode |-> "cmp-ab12", createdBy |-> Owner]]
  /\ emails = <<>>
  /\ posts = [p \in SocialIds |->
        [campaignId |-> TheCampaign, status |-> "Draft", scheduledAt |-> 1,
         stats |-> ZeroPostStats]]
  /\ bookings = InitBookings
  /\ events = [e \in EmailIds |-> [k \in EventKinds |-> 0]]
  /\ rows = {}
  /\ pending = {}
  /\ sends = [s \in 1 .. NumSends |-> IdleSend]
  /\ ticks = [t \in 1 .. NumTicks |-> IdleTick]
  /\ socialTicks = [t \in 1 .. NumTicks |-> IdleTick]
  /\ published = [p \in SocialIds |-> 0]
  /\ timers = [e \in EmailIds |-> NoTimers]
  /\ cron = IdleCron
  /\ handed = [e \in EmailIds |-> <<>>]
  /\ last = Quiet

SocialRoutes(C) ==
  \/ \E p \in SocialIds : \E c \in C : \E at \in Dates \cup {NoTime} :
       UpdatePost(p, c, at)
  \/ \E p \in SocialIds : \E c \in C : DeletePost(p, c)
  \/ \E p \in SocialIds : \E c \in C : SchedulePost(p, c)

\* The callbacks of the social setInterval; a callback can start while an
\* earlier one is still awaiting.
SocialScheduler ==
  \/ \E t \in 1 .. NumTicks : SocialScan(t)
  \/ \E t \in 1 .. NumTicks : SocialPost(t)

NextSocial ==
  \/ SocialRoutes(Creds)
  \/ SocialScheduler
  \/ Elapse

SpecSocial == InitSocial /\ [][NextSocial]_vars

(***************************************************************************)
(* A campaign with a job and a post under it: the owner manages the        *)
(* campaign while the job is sent and the post is scheduled, and both      *)
(* intervals run, one callback of each at a time.                          *)
(***************************************************************************)
InitFrame ==
  /\ now = 0
  /\ campaigns = [c \in CampaignIds |->
        [status |-> "Active", utmCode |-> "cmp-ab12", createdBy |-> Owner,
         startAt |-> 0, endAt |-> MaxTime + 1]]
  /\ emails = [e \in EmailIds |-> DraftJob(1, SegTech, "mock")]
  /\ posts = [p \in PostIds |->
        [campaignId |-> TheCampaign, status |-> "Draft", scheduledAt |-> 1,
         stats |-> ZeroPostStats]]
  /\ bookings = InitBookings
  /\ events = [e \in EmailIds |-> [k \in EventKinds |-> 0]]
  /\ rows = {}
  /\ pending = {}
  /\ sends = [s \in 1 .. NumSends |-> IdleSend]
  /\ ticks = [t \in 1 .. NumTicks |-> IdleTick]
  /\ socialTicks = [t \in 1 .. NumTicks |-> IdleTick]
  /\ published = [p \in PostIds |-> 0]
  /\ timers = [e \in EmailIds |-> NoTimers]
  /\ cron = IdleCron
  /\ handed = [e \in EmailIds |-> <<>>]
  /\ last = Quiet

NextFrame ==
  \/ \E e \in Dates : UpdateCampaign(TheCampaign, Owner, NoTime, e)
  \/ PauseCampaign(TheCampaign, Owner)
  \/ ActivateCampaign(TheCampaign, Owner)
  \/ SchedulePost(ThePost, Owner)
  \/ Sending(OneSlot)
  \/ TickScan(1) \/ TickMark(1) \/ TickSend(1)
  \/ SocialScan(1) \/ SocialPost(1)
  \/ Elapse

SpecFrame == InitFrame /\ [][NextFrame]_vars


(***************************************************************************)
(* Properties.                                                             *)
(***************************************************************************)

\* C1: in every reachable state, after any number of sequential or concurrent
\* recomputations (updateMarketingStats, updateDailyStats) the store holds at
\* most one MarketingStats row per (campaignId, date).
C1_OneRowPerKey ==
  \A r1 \in rows : \A r2 \in rows :
    (r1.campaignId = r2.campaignId /\ r1.date = r2.date) => r1 = r2

\* C1, its case: two recomputations of one key have raced -- the row of the
\* key is in the store while another upsert of the same key, whose match
\* phase found nothing, still holds its insert.
C1_RacedUpserts ==
  \E p \in pending :
    /\ RowsAt(rows, p.campaignId, p.date) # {}
    /\ p.campaignId \in CampaignIds

StatusEdges ==
  {<<"Draft", "Queued">>, <<"Queued", "Sending">>, <<"Sending", "Sent">>,
   <<"Sending", "Failed">>}

C3_StatusEdgesOnly ==
  [][\A e \in EmailIds :
       emails'[e].status # emails[e].status =>
         <<emails[e].status, emails'[e].status>> \in StatusEdges]_vars

ResolvedCount(e) == Cardinality(resolveSegmentQuery(emails[e].segment))
CeilDiv(a, b) == (a + b - 1) \div b

HeldByBatch(e) ==
  \E s \in DOMAIN sends : sends[s].pc # "idle" /\ sends[s].id = e
HeldByTick(e) ==
  \E t \in DOMAIN ticks : ticks[t].pc # "idle" /\ Head(ticks[t].queue) = e
PickedByLaterTick(e) == \E t \in now .. MaxTime + 1 : e \in DueEmails(emails, t)

C8_ClickRedirects ==
  (last.op = "click" /\ last.url # "") =>
    (last.code = 302 /\ last.location = last.url)

\* C9: an open-tracking request always ends with the 1x1 pixel response.
C9_OpenGetsPixel ==
  last.op = "open" => (last.code = 200 /\ last.body = Pixel)

\* C10: the tracking endpoints serve requests that carry no credentials: an
\* unauthenticated open receives the pixel, an unauthenticated click with a
\* valid url receives the redirect.
C10_PublicTracking ==
  (last.cred = "none" /\ last.op \in {"open", "click"}) =>
    /\ last.op = "open" => last.body = Pixel
    /\ (last.op = "click" /\ isURL(last.url)) =>
         (last.code = 302 /\ last.location = last.url)

\* C11: an update request (subject, template, from address, segment,
\* provider) on an email job that is not in Draft is rejected and changes no
\* field of the job.
C11_NonDraftNotUpdated ==
  [][\A e \in DOMAIN emails :
       (last'.op = "updateEmail" /\ last'.id = e /\ emails[e].status # "Draft")
         => (last'.code \in {400, 401, 403} /\ emails' = emails)]_vars

\* C11, its case: the owner's update of a job that has left Draft was
\* answered 400.
C11_RejectedUpdate ==
  /\ last.op = "updateEmail" /\ last.code = 400 /\ last.cred = Owner
  /\ last.id \in DOMAIN emails
  /\ emails[last.id].status \in {"Queued", "Sending", "Sent", "Failed"}

\* C12: a schedule request on a Draft social post succeeds only when the
\* parent campaign is Active; under a Scheduled, Paused or Completed campaign
\* it is rejected -- the owner's request with the state error -- and the post
\* stays Draft with its schedule time unchanged.
C12_ScheduleNeedsActive ==
  [][\A p \in DOMAIN posts :
       (last'.op = "schedulePost" /\ last'.id = p /\ posts[p].status = "Draft")
         => LET parent == campaigns[posts[p].campaignId] IN
            /\ last'.code = 200 => parent.status = "Active"
            /\ parent.status \in {"Scheduled", "Paused", "Completed"} =>
                 /\ last'.code \in {400, 401, 403}
                 /\ parent.createdBy = last'.cred =>
                      (last'.code = 400 /\ last'.body = NotActiveCampaign)
                 /\ posts' = posts]_vars

\* C12, its case: the owner's schedule request on a Draft post under a Paused
\* campaign was answered with the state error.
C12_RejectedUnderPaused ==
  /\ last.op = "schedulePost" /\ last.code = 400
  /\ last.body = NotActiveCampaign
  /\ posts[last.id].status = "Draft"
  /\ campaigns[posts[last.id].campaignId].status = "Paused"

\* C13: a schedule request on a Draft post under an Active campaign is
\* accepted whatever the schedule time: a time that is not after now is set to
\* now plus one minute, a time in the future is kept, and the post becomes
\* Queued.
C13_ScheduleTimeSet ==
  [][\A p \in DOMAIN posts :
       (last'.op = "schedulePost" /\ last'.id = p /\ posts[p].status = "Draft"
          /\ campaigns[posts[p].campaignId].status = "Active"
          /\ campaigns[posts[p].campaignId].createdBy = last'.cred)
         => /\ last'.code \in {200, 500}
            /\ last'.code = 200 =>
                 /\ posts'[p].status = "Queued"
                 /\ posts'[p].scheduledAt =
                      IF posts[p].scheduledAt > now THEN posts[p].scheduledAt
                      ELSE now + Minute]_vars

\* C13, its case: a post was queued with a schedule time one minute from now
\* that no request carried.
C13_MovedToNextMinute ==
  /\ last.op = "schedulePost" /\ last.code = 200
  /\ posts[last.id].status = "Queued"
  /\ posts[last.id].scheduledAt = now + Minute
  /\ posts[last.id].scheduledAt \notin Dates

\* C14: a recomputed row holds, as email sub-statistics, the sums of sent,
\* delivered, opens, clicks and bounces over every email job of the campaign
\* whatever its status; as social sub-statistics, the sums of impressions,
\* clicks and likes + shares + comments over exactly the Posted posts; and
\* reach = delivered + impressions.
C14_EmailSums(cid) ==
  LET E == {e \in DOMAIN emails' : emails'[e].campaignId = cid}
  IN [f \in StatFields |-> SumOver(E, [e \in E |-> emails'[e].stats[f]])]

C14_SocialSums(cid) ==
  LET P == {p \in DOMAIN posts' :
              posts'[p].campaignId = cid /\ posts'[p].status = "Posted"}
  IN [impressions |-> SumOver(P, [p \in P |-> posts'[p].stats.impressions]),
      clicks |-> SumOver(P, [p \in P |-> posts'[p].stats.clicks]),
      engagements |->
        SumOver(P, [p \in P |-> posts'[p].stats.likes + posts'[p].stats.shares
                                  + posts'[p].stats.comments])]

C15_Attributed(cid, d) ==
  {b \in bookings' :
     /\ cid \in DOMAIN campaigns'
     /\ b.sourceCampaign = campaigns'[cid].utmCode
     /\ b.createdAt >= DayStart(d)
     /\ b.createdAt < DayStart(d) + DayLen}

C16_Booked == {b.user : b \in bookings}
C16_CheckedIn == {b.user : b \in {x \in bookings : x.status = "checked-in"}}

C16_NotCheckedExact ==
  \A e \in DOMAIN emails : \A i \in DOMAIN handed[e] :
    (handed[e][i].by = "tick" /\ emails[e].segment = SegNotChecked)
      => handed[e][i].n = Cardinality(C16_Booked \ C16_CheckedIn)

\* C17: in every reachable state a campaign that is not Paused has the status
\* of its dates: Completed if now > end, else Active if now >= start, else
\* Scheduled.
C17_StatusFollowsDates ==
  \A c \in DOMAIN campaigns :
    campaigns[c].status # "Paused" =>
      campaigns[c].status =
        IF now > campaigns[c].endAt THEN "Completed"
        ELSE IF now >= campaigns[c].startAt THEN "Active"
        ELSE "Scheduled"

C19_CreatedStatus ==
  [][\A c \in DOMAIN campaigns' :
       c \notin DOMAIN campaigns =>
         campaigns'[c].status =
           IF now >= campaigns'[c].startAt THEN "Active" ELSE "Scheduled"]_vars

\* C19, its case: a campaign was created at the very time its start date
\* names, and is Active.
C19_CreatedAtStart ==
  /\ last.op = "createCampaign" /\ last.code = 201
  /\ campaigns[last.id].startAt = now
  /\ campaigns[last.id].status = "Active"

\* C20: after a successful update of a campaign that is not Paused, its
\* status is Completed if now > end, else Active if now >= start, else
\* Scheduled, on the start and end dates as they are after the update.
C20_UpdatedStatus ==
  [][\A c \in DOMAIN campaigns :
       (last'.op = "updateCampaign" /\ last'.id = c /\ last'.code = 200
          /\ campaigns[c].status # "Paused")
         => campaigns'[c].status =
              IF now > campaigns'[c].endAt THEN "Completed"
              ELSE IF now >= campaigns'[c].startAt THEN "Active"
              ELSE "Scheduled"]_vars

\* C20, its case: a successful update found the end date passed and made the
\* campaign Completed.
C20_UpdatedToCompleted ==
  /\ last.op = "updateCampaign" /\ last.code = 200
  /\ campaigns[last.id].status = "Completed"
  /\ now > campaigns[last.id].endAt

\* C21: a pause request succeeds, and leaves the campaign Paused, exactly when
\* the campaign is Active or Scheduled; on a Paused or Completed campaign it
\* is rejected -- the owner's request with 400 -- and the campaign is
\* unchanged.
C21_PauseNeedsRunning ==
  [][\A c \in DOMAIN campaigns :
       (last'.op = "pauseCampaign" /\ last'.id = c) =>
         /\ last'.code = 200 =>
              /\ campaigns[c].status \in {"Active", "Scheduled"}
              /\ campaigns' = [campaigns EXCEPT ![c].status = "Paused"]
         /\ (campaigns[c].status \in {"Active", "Scheduled"}
               /\ campaigns[c].createdBy = last'.cred) =>
              last'.code \in {200, 500}
         /\ campaigns[c].status \in {"Paused", "Completed"} =>
              /\ last'.code \in {400, 401, 403}
              /\ campaigns[c].createdBy = last'.cred => last'.code = 400
              /\ campaigns' = campaigns]_vars

\* C21, its case: the owner's pause of a Completed campaign was answered 400.
C21_RejectedOnCompleted ==
  /\ last.op = "pauseCampaign" /\ last.code = 400 /\ last.cred = Owner
  /\ last.id \in DOMAIN campaigns
  /\ campaigns[last.id].status = "Completed"

\* C22: an activate request succeeds exactly when the campaign is Paused, and
\* then leaves it Completed when the clock is past the end date, Active when
\* the clock is at or past the start date, Scheduled otherwise; on any other
\* status it is rejected and the campaign is unchanged.
C22_ActivateNeedsPaused ==
  [][\A c \in DOMAIN campaigns :
       (last'.op = "activateCampaign" /\ last'.id = c) =>
         /\ last'.code = 200 =>
              /\ campaigns[c].status = "Paused"
              /\ campaigns' = [campaigns EXCEPT ![c].status =
                   IF now > campaigns[c].endAt THEN "Completed"
                   ELSE IF now >= campaigns[c].startAt THEN "Active"
                   ELSE "Scheduled"]
         /\ (campaigns[c].status = "Paused"
               /\ campaigns[c].createdBy = last'.cred) =>
              last'.code \in {200, 500}
         /\ campaigns[c].status # "Paused" =>
              /\ last'.code \in {400, 401, 403}
              /\ campaigns[c].createdBy = last'.cred => last'.code = 400
              /\ campaigns' = campaigns]_vars

\* C22, its case: a Paused campaign was activated after its end date and
\* became Completed.
C22_ActivatedToCompleted ==
  /\ last.op = "activateCampaign" /\ last.code = 200
  /\ campaigns[last.id].status = "Completed"
  /\ now > campaigns[last.id].endAt

\* C22, its other case: the owner's activate request on an Active campaign
\* was answered 400.
C22_RejectedOnActive ==
  /\ last.op = "activateCampaign" /\ last.code = 400 /\ last.cred = Owner
  /\ last.id \in DOMAIN campaigns
  /\ campaigns[last.id].status = "Active"

\* C23: after any sequence of create and update requests every stored
\* campaign has its end date strictly after its start date, updates of the
\* start date alone or of the end date alone included; a request that is not
\* answered with success stores nothing.
C23_EndAfterStartKept ==
  [][/\ \A c \in DOMAIN campaigns' :
          campaigns'[c].startAt < campaigns'[c].endAt
     /\ (last'.op \in {"createCampaign", "updateCampaign"}
           /\ last'.code \notin {200, 201}) => campaigns' = campaigns]_vars

\* C23, its case: a creation whose end date is not after its start date was
\* answered 400 and no campaign is stored.
C23_CreateTurnedDown ==
  /\ last.op = "createCampaign" /\ last.code = 400
  /\ last.body = EndNotAfterStart
  /\ campaigns = <<>>

C24_CascadeAtReturn ==
  [][(last'.op = "deleteCampaign" /\ last'.code = 200) =>
       /\ last'.id \notin DOMAIN campaigns'
       /\ \A e \in DOMAIN emails' : emails'[e].campaignId # last'.id
       /\ \A p \in DOMAIN posts' : posts'[p].campaignId # last'.id
       /\ \A r \in rows' : r.campaignId # last'.id]_vars

\* C25: within one tick an exception while one due item is processed does
\* not keep the other due items the tick has found from being processed: a
\* callback of the social interval ends only after the last item of its
\* queue.
C25_TickFinishesQueue ==
  [][\A t \in DOMAIN socialTicks :
       (socialTicks[t].pc = "post" /\ socialTicks'[t].pc = "idle")
         => Len(socialTicks[t].queue) = 1]_vars

\* C28: a social post is posted at most once over its lifetime, whatever the
\* ticks do.
C28_PostedAtMostOnce ==
  \A p \in DOMAIN published : published[p] <= 1

\* C30, the step of a callback that posts p.
C30_Dispatches(p) ==
  \E t \in DOMAIN socialTicks :
    /\ socialTicks[t].pc = "post" /\ Head(socialTicks[t].queue) = p
    /\ socialTicks'[t] # socialTicks[t]

\* C30: the status of a social post changes only from Draft to Queued, by a
\* schedule request, and from Queued to Posted or Failed, by a dispatch;
\* update, delete and schedule requests succeed only on a Draft post and are
\* rejected without effect on any other; the scheduler dispatches only posts
\* that are Queued.
C30_PostLifecycle ==
  [][\A p \in DOMAIN posts :
       /\ (p \in DOMAIN posts' /\ posts'[p].status # posts[p].status) =>
            \/ /\ posts[p].status = "Draft" /\ posts'[p].status = "Queued"
               /\ last'.op = "schedulePost" /\ last'.id = p
            \/ /\ posts[p].status = "Queued"
               /\ posts'[p].status \in {"Posted", "Failed"}
               /\ C30_Dispatches(p)
       /\ (last'.op \in {"updatePost", "deletePost", "schedulePost"}
             /\ last'.id = p /\ posts[p].status # "Draft") =>
            (last'.code \in {400, 401, 403} /\ posts' = posts)
       /\ C30_Dispatches(p) => posts[p].status = "Queued"]_vars

\* C26, the recipients a step has dispatched for job e: the 'sent' events a
\* batch has recorded, and the recipients a tick has handed over when it
\* wrote the document.
C26_SentByStep(e) ==
  LET byBatch == events'[e]["sent"] - events[e]["sent"]
      grew == Len(handed'[e]) > Len(handed[e])
      entry == handed'[e][Len(handed'[e])]
  IN IF grew /\ entry.by = "tick" /\ emails'[e] # emails[e]
       THEN byBatch + entry.n
       ELSE byBatch

\* C26: the sent and delivered counters of an email job are cumulative: a
\* dispatch step leaves sent at its previous value plus the recipients the
\* step has dispatched, a tick leaves delivered at its previous value plus
\* the deliveries it counts, and no step lowers either counter.
C26_CountersCumulative ==
  [][\A e \in DOMAIN emails \cap DOMAIN emails' :
       /\ emails'[e].stats.sent >= emails[e].stats.sent
       /\ emails'[e].stats.delivered >= emails[e].stats.delivered
       /\ emails'[e].stats.sent = emails[e].stats.sent + C26_SentByStep(e)
       /\ (C26_SentByStep(e) > 0 /\ events'[e] = events[e]) =>
            emails'[e].stats.delivered =
              emails[e].stats.delivered
                + (C26_SentByStep(e) * 95) \div 100]_vars

\* C27, the error message a stored job carries: emailCampaignSchema has no
\* path for one, so a document holds none.
C27_StoredError(doc) ==
  IF "error" \in DOMAIN doc THEN doc.error ELSE ""

\* C27: when the provider fails during the dispatch of a batch, the job ends
\* Failed with a stored, non-empty error message, and the counters and
\* events it has accumulated are kept.
C27_FailedKeepsError ==
  [][\A s \in DOMAIN sends :
       (sends[s].pc = "batch" /\ sends'[s].pc = "idle") =>
         LET e == sends[s].id IN
         /\ emails'[e].status = "Failed"
         /\ C27_StoredError(emails'[e]) # ""
         /\ emails'[e].stats = emails[e].stats
         /\ \A k \in EventKinds : events'[e][k] >= events[e][k]]_vars

\* C29: a send request on a Draft job whose segment -- status predicate,
\* interests, locations, age range -- resolves to no recipient is rejected
\* and the job stays Draft; a job becomes Queued only when the resolver's
\* result for its segment is not empty.
C29_QueuedOnlyWithRecipients ==
  [][\A e \in DOMAIN emails \cap DOMAIN emails' :
       LET resolved == getSegmentedRecipients(emails[e].segment, bookings) IN
       /\ (emails[e].status = "Draft" /\ emails'[e].status = "Queued")
            => resolved # {}
       /\ (last'.op = "send" /\ last'.id = e /\ emails[e].status = "Draft"
             /\ resolved = {})
            => (last'.code # 200 /\ emails' = emails)]_vars

\* C31: an accepted tracking signal on a job that exists, when its writes
\* succeed, appends exactly one event of its kind and raises the matching
\* counter by exactly one: a click whose counter was raised has appended one
\* click event, and an open whose counter was raised has appended one open
\* event.
C31_SignalAppendsEvent ==
  [][\A e \in DOMAIN emails :
       /\ (last'.op = "click" /\ last'.id = e
             /\ emails'[e].stats.clicks = emails[e].stats.clicks + 1)
            => events'[e]["click"] = events[e]["click"] + 1
       /\ (last'.op = "open" /\ last'.id = e
             /\ emails'[e].stats.opens = emails[e].stats.opens + 1)
            => events'[e]["open"] = events[e]["open"] + 1]_vars

C36_MutatingOps ==
  {"updateCampaign", "deleteCampaign", "pauseCampaign", "activateCampaign",
   "createEmail", "updateEmail", "send",
   "createPost", "updatePost", "deletePost", "schedulePost"}

\* C36: a request that changes a campaign or one of its jobs, made by an
\* admin who does not own the campaign, is answered with a 4xx in the same
\* step and leaves campaigns, jobs, posts, events and statistics rows as they
\* were; no send of a requester who is not the owner starts a dispatch.
C36_StrangerTurnedDown ==
  [][/\ sends' = sends
     /\ (/\ last'.op \in C36_MutatingOps
         /\ last'.cred = "admin2"
         /\ TheCampaign \in DOMAIN campaigns
         /\ campaigns[TheCampaign].createdBy # "admin2")
          => /\ last'.code \in {400, 403, 404}
             /\ UNCHANGED <<campaigns, emails, posts, rows, events,
                            handed>>]_vars

\* C36, its case: another admin asks to pause the owner's Active campaign
\* and is answered 403.
C36_StrangerPauses ==
  /\ last.op = "pauseCampaign" /\ last.cred = "admin2" /\ last.code = 403
  /\ TheCampaign \in DOMAIN campaigns
  /\ campaigns[TheCampaign].status = "Active"
  /\ campaigns[TheCampaign].createdBy = Owner
  /\ TheEmail \in DOMAIN emails /\ ThePost \in DOMAIN posts

C38_OneBatchPerJob ==
  \A e \in EmailIds :
    Cardinality({i \in DOMAIN handed[e] : handed[e][i].by = "batch"}) <= 1

\* C39: no social post is published before its stored schedule time: a
\* schedule request answered 200 stores a time later than the time of the
\* request, the stored time of a Queued post does not change, and a callback
\* of the social interval publishes a post only when the clock has reached
\* the stored time.
C39_NotBeforeSchedule ==
  [][/\ (last'.op = "schedulePost" /\ last'.code = 200) =>
          /\ posts'[last'.id].status = "Queued"
          /\ posts'[last'.id].scheduledAt > now
     /\ \A p \in DOMAIN posts \cap DOMAIN posts' :
          posts[p].status = "Queued" =>
            posts'[p].scheduledAt = posts[p].scheduledAt
     /\ \A t \in DOMAIN socialTicks :
          (socialTicks[t].pc = "post" /\ socialTicks'[t] # socialTicks[t]) =>
            LET p == Head(socialTicks[t].queue)
            IN p \in DOMAIN posts =>
                 /\ posts[p].scheduledAt # NoTime
                 /\ posts[p].scheduledAt <= now]_vars

\* C39, its case: a post whose time was moved forward before it was queued
\* has been published by the interval once the clock reached that time.
C39_PublishedAtStoredTime ==
  \E p \in DOMAIN posts :
    /\ posts[p].status = "Posted" /\ published[p] > 0
    /\ posts[p].scheduledAt = 2 /\ now = 2

=============================================================================
